---- MODULE Spec2Model ----
(***************************************************************************)
(* truthscope: the fact-check pipeline of pathway_pipeline.py.             *)
(*                                                                         *)
(* Text is modelled as a sequence of characters, each character a string   *)
(* of its own ("a", " ", "."); the characters that are not ASCII carry     *)
(* their code point as name ("U+26A0" is the warning sign of the           *)
(* diagnostics, "U+00C9"/"U+00E9" are E/e with acute accent).              *)
(* Python's None is the value None below, which is no text.                *)
(***************************************************************************)
EXTENDS Integers, Sequences, FiniteSets, TLC

VARIABLES
    OPENAI_API_KEY,  \* TRUE when the environment sets the credential
    OPENAI_MODE,     \* "client", "legacy" or "None"
    client,          \* "OpenAI", "legacy_openai" or "None"
    NEWS_API_KEY,    \* TRUE when the environment sets the credential
    GNEWS_API_KEY,   \* TRUE when the environment sets the credential
    trusted_items,   \* the cache: a sequence of feed items
    pc,              \* position of the one (synchronous) caller
    caller,          \* the entry point that is running
    headline,        \* argument of check_news
    urlIdx,          \* position of fetch_rss_once in TRUSTED_RSS_URLS
    new,             \* fetch_rss_once: the items appended by this refresh
    relinked,        \* history: this refresh met a cached headline under another link
    evidence,        \* check_news: the evidence list
    verdict_text,    \* check_news: the explanation
    apiLog,          \* the search requests this call has sent, with their outcome
    llmCalls,        \* the completion requests this call has sent, with their outcome
    ret,             \* the value returned to the caller
    arg,             \* argument of the pure function under check
    out              \* its result

vars ==
    << OPENAI_API_KEY, OPENAI_MODE, client, NEWS_API_KEY, GNEWS_API_KEY,
       trusted_items, pc, caller, headline, urlIdx, new, relinked, evidence,
       verdict_text, apiLog, llmCalls, ret, arg, out >>

----------------------------------------------------------------------------
(* Text *)

None ==
    << "<None>" >>

Unset ==
    << "<unset>" >>

UpperCase ==
    <<"A", "B", "C", "D", "E", "F", "G", "H", "I", "J", "K", "L", "M", "N", "O", "P", "Q", "R", "S", "T", "U", "V", "W", "X", "Y", "Z">>

LowerCase ==
    <<"a", "b", "c", "d", "e", "f", "g", "h", "i", "j", "k", "l", "m", "n", "o", "p", "q", "r", "s", "t", "u", "v", "w", "x", "y", "z">>

Digits ==
    <<"0", "1", "2", "3", "4", "5", "6", "7", "8", "9">>

Space ==
    " "

\* the white space of str.strip() and str.split()
WhiteSpace ==
    {" ", "LF", "TAB"}

RECURSIVE IndexOf(_, _, _)
IndexOf(c, s, i) ==
    IF i > Len(s) THEN 0
    ELSE IF s[i] = c THEN i
    ELSE IndexOf(c, s, i + 1)

UpperCaseSet ==
    { UpperCase[i] : i \in 1..Len(UpperCase) }

KeptSet ==
    { LowerCase[i] : i \in 1..Len(LowerCase) } \cup { Digits[i] : i \in 1..Len(Digits) } \cup {Space}

\* str.lower() on one character
LowerChar(c) ==
    IF c \in UpperCaseSet THEN LowerCase[IndexOf(c, UpperCase, 1)]
    ELSE IF c = "U+00C9" THEN "U+00E9"
    ELSE c

RECURSIVE LowerFrom(_, _, _)
LowerFrom(s, i, acc) ==
    IF i > Len(s) THEN acc ELSE LowerFrom(s, i + 1, Append(acc, LowerChar(s[i])))

\* str.lower()
Lower(s) ==
    LowerFrom(s, 1, << >>)

\* a character of the class [a-z0-9 ]
IsKept(c) ==
    c \in KeptSet

\* the substitution without .lower(), the class widened to the capitals
normalizeKeepCase(text) ==
    SelectSeq(IF text = None THEN << >> ELSE text,
              LAMBDA c : IsKept(c) \/ c \in UpperCaseSet)

\* re.sub(r"[^a-z0-9 ]+", "", (text or "").lower())
normalize(text) ==
    SelectSeq(Lower(IF text = None THEN << >> ELSE text), IsKept)

\* tok in vt
Contains(vt, tok) ==
    \E i \in 0..(Len(vt) - Len(tok)) : \A k \in 1..Len(tok) : vt[i + k] = tok[k]

RECURSIVE LStrip(_)
LStrip(s) ==
    IF s # << >> /\ Head(s) \in WhiteSpace THEN LStrip(Tail(s)) ELSE s

RECURSIVE RStrip(_)
RStrip(s) ==
    IF s # << >> /\ s[Len(s)] \in WhiteSpace THEN RStrip(SubSeq(s, 1, Len(s) - 1)) ELSE s

\* str.strip()
Strip(s) ==
    RStrip(LStrip(s))

RECURSIVE Join(_, _)
\* sep.join(parts)
Join(parts, sep) ==
    IF parts = << >> THEN << >>
    ELSE IF Len(parts) = 1 THEN parts[1]
    ELSE parts[1] \o sep \o Join(Tail(parts), sep)

\* str(x) inside an f-string
Str(x) ==
    IF x = None THEN <<"N", "o", "n", "e">> ELSE x

----------------------------------------------------------------------------
(* Label derivation *)

fake_tokens ==
    << <<"f", "a", "k", "e">>,
       <<"f", "a", "l", "s", "e">>,
       <<"n", "o", "t", " ", "t", "r", "u", "e">>,
       <<"m", "i", "s", "l", "e", "a", "d", "i", "n", "g">>,
       <<"f", "a", "b", "r", "i", "c", "a", "t", "e", "d">>,
       <<"n", "o", " ", "e", "v", "i", "d", "e", "n", "c", "e">>,
       <<"u", "n", "v", "e", "r", "i", "f", "i", "e", "d">>,
       <<"i", "n", "c", "o", "r", "r", "e", "c", "t">> >>

real_tokens ==
    << <<"r", "e", "a", "l">>,
       <<"t", "r", "u", "e">>,
       <<"v", "e", "r", "i", "f", "i", "e", "d">>,
       <<"c", "o", "n", "f", "i", "r", "m", "e", "d">>,
       <<"a", "c", "c", "u", "r", "a", "t", "e">>,
       <<"s", "u", "b", "s", "t", "a", "n", "t", "i", "a", "t", "e", "d">>,
       <<"s", "u", "p", "p", "o", "r", "t", "e", "d">>,
       <<"y", "e", "s">> >>

PotentialFake ==
    "Potential Fake"

VerifiedReal ==
    "Verified Real"

Unverified ==
    "Unverified"

VerdictLabelRealFirst(text) ==
    LET vt == Lower(IF text = None THEN << >> ELSE text) IN
    IF \E i \in 1..Len(real_tokens) : Contains(vt, real_tokens[i]) THEN VerifiedReal
    ELSE IF \E i \in 1..Len(fake_tokens) : Contains(vt, fake_tokens[i]) THEN PotentialFake
    ELSE Unverified

\* the label the prompt of the model suggests, which is none of the three
VerdictLabelLikelyFake(text) ==
    LET vt == Lower(IF text = None THEN << >> ELSE text) IN
    IF \E i \in 1..Len(fake_tokens) : Contains(vt, fake_tokens[i]) THEN "Likely Fake"
    ELSE IF \E i \in 1..Len(real_tokens) : Contains(vt, real_tokens[i]) THEN VerifiedReal
    ELSE Unverified

\* vt = (verdict_text or "").lower(); the label is the first rule that matches
VerdictLabel(text) ==
    LET vt == Lower(IF text = None THEN << >> ELSE text) IN
    IF \E i \in 1..Len(fake_tokens) : Contains(vt, fake_tokens[i]) THEN PotentialFake
    ELSE IF \E i \in 1..Len(real_tokens) : Contains(vt, real_tokens[i]) THEN VerifiedReal
    ELSE Unverified

----------------------------------------------------------------------------
(* fuzz.token_set_ratio of rapidfuzz, on normalized text.  A ratio is the  *)
(* exact fraction <<numerator, denominator>> of the float the library      *)
(* returns.                                                                *)

Max(a, b) ==
    IF a >= b THEN a ELSE b

\* code point order of the characters normalize keeps, but for the space
Ord(c) ==
    IndexOf(c, Digits \o LowerCase, 1)

RECURSIVE LexLess(_, _)
\* a < b on str
LexLess(a, b) ==
    IF b = << >> THEN FALSE
    ELSE IF a = << >> THEN TRUE
    ELSE IF Head(a) = Head(b) THEN LexLess(Tail(a), Tail(b))
    ELSE Ord(Head(a)) < Ord(Head(b))

RECURSIVE SplitFrom(_, _, _)
SplitFrom(s, i, word) ==
    IF i > Len(s) THEN (IF word = << >> THEN << >> ELSE << word >>)
    ELSE IF s[i] \in WhiteSpace
         THEN (IF word = << >> THEN << >> ELSE << word >>) \o SplitFrom(s, i + 1, << >>)
         ELSE SplitFrom(s, i + 1, Append(word, s[i]))

\* str.split()
Split(s) ==
    SplitFrom(s, 1, << >>)

Tokens(s) ==
    LET words == Split(s) IN { words[i] : i \in 1..Len(words) }

RECURSIVE Sorted(_)
\* sorted(tokens)
Sorted(S) ==
    IF S = {} THEN << >>
    ELSE LET m == CHOOSE x \in S : \A y \in S : x = y \/ LexLess(x, y)
         IN  << m >> \o Sorted(S \ {m})

RECURSIVE LcsRow(_, _, _, _, _)
LcsRow(prev, c, b, j, cur) ==
    IF j > Len(b) THEN cur
    ELSE LcsRow(prev, c, b, j + 1,
                Append(cur, IF c = b[j] THEN prev[j] + 1
                            ELSE Max(prev[j + 1], cur[j])))

RECURSIVE LcsFrom(_, _, _, _)
LcsFrom(a, b, i, prev) ==
    IF i > Len(a) THEN prev[Len(b) + 1]
    ELSE LcsFrom(a, b, i + 1, LcsRow(prev, a[i], b, 1, << 0 >>))

\* length of the longest common subsequence
Lcs(a, b) ==
    LcsFrom(a, b, 1, [j \in 1..(Len(b) + 1) |-> 0])

\* insertions and deletions that turn a into b
indel_distance(a, b) ==
    Len(a) + Len(b) - 2 * Lcs(a, b)

\* 100 - 100 * dist / lensum
norm_distance(dist, lensum) ==
    IF lensum > 0 THEN << 100 * (lensum - dist), lensum >> ELSE << 100, 1 >>

RatioGreater(r, q) ==
    r[1] * q[2] > q[1] * r[2]

RatioMax(r, q) ==
    IF RatioGreater(q, r) THEN q ELSE r

token_set_ratio(s1, s2) ==
    LET tokens_a == Tokens(s1)
        tokens_b == Tokens(s2)
        intersect == tokens_a \cap tokens_b
        diff_ab == tokens_a \ tokens_b
        diff_ba == tokens_b \ tokens_a
        diff_ab_joined == Join(Sorted(diff_ab), << Space >>)
        diff_ba_joined == Join(Sorted(diff_ba), << Space >>)
        ab_len == Len(diff_ab_joined)
        ba_len == Len(diff_ba_joined)
        sect_len == Len(Join(Sorted(intersect), << Space >>))
        sep == IF sect_len # 0 THEN 1 ELSE 0
        sect_ab_len == sect_len + sep + ab_len
        sect_ba_len == sect_len + sep + ba_len
        result == norm_distance(indel_distance(diff_ab_joined, diff_ba_joined),
                                sect_ab_len + sect_ba_len)
        sect_ab_ratio == norm_distance(sep + ab_len, sect_len + sect_ab_len)
        sect_ba_ratio == norm_distance(sep + ba_len, sect_len + sect_ba_len)
    IN  IF s1 = << >> \/ s2 = << >> THEN << 0, 1 >>
        ELSE IF tokens_a = {} \/ tokens_b = {} THEN << 0, 1 >>
        ELSE IF intersect # {} /\ (diff_ab = {} \/ diff_ba = {}) THEN << 100, 1 >>
        ELSE IF sect_len = 0 THEN result
        ELSE RatioMax(RatioMax(result, sect_ab_ratio), sect_ba_ratio)

MatchThreshold ==
    60

\* the comparison with the threshold taken as "at least"
IsRssMatchAtLeast(norm_headline, item) ==
    ~RatioGreater(<< MatchThreshold, 1 >>,
                  token_set_ratio(norm_headline, normalize(item.headline)))

\* fuzz.token_set_ratio(norm_headline, normalize(item["headline"])) > 60
IsRssMatch(norm_headline, item) ==
    RatioGreater(token_set_ratio(norm_headline, normalize(item.headline)),
                 << MatchThreshold, 1 >>)

----------------------------------------------------------------------------
(* Bounds and sample data *)

\* feeds of TRUSTED_RSS_URLS that are modelled
NumFeeds ==
    2

\* longest entry list of a feed
MaxEntries ==
    2

\* a feed is named by its place in the list
TRUSTED_RSS_URLS ==
    [i \in 1..NumFeeds |-> i]

TaxUp ==
    <<"T", "a", "x", " ", "u", "p">>

Rain ==
    <<"R", "a", "i", "n">>

Link1 ==
    <<"u", "1">>

Link2 ==
    <<"u", "2">>

Link3 ==
    <<"u", "3">>

Published ==
    <<"M", "o", "n">>

\* str(datetime.utcnow())
UtcNow ==
    <<"n", "o", "w">>

\* entries of a parsed feed: the same headline under two links, with and
\* without date, another headline, and an entry without title
SampleEntries ==
    { [title |-> TaxUp, link |-> Link1, published |-> Published],
      [title |-> TaxUp, link |-> Link2],
      [title |-> Rain, link |-> Link3, published |-> Published],
      [link |-> Link1, published |-> Published] }

RECURSIVE SeqsUpTo(_, _)
SeqsUpTo(S, n) ==
    IF n = 0 THEN { << >> }
    ELSE LET shorter == SeqsUpTo(S, n - 1)
         IN  shorter \cup { Append(q, x) : q \in shorter, x \in S }

\* what feedparser.parse(url) returns: a result without entries (the feed
\* could not be fetched or parsed) or with a list of entries, empty or not
ParseResults ==
    { [bozo |-> TRUE] } \cup { [entries |-> es] : es \in SeqsUpTo(SampleEntries, MaxEntries) }

\* headlines given to check_news
CheckHeadlines ==
    { <<"T", "a", "x", " ", "u", "p", " ", "n", "o", "w", "!">> }

\* headlines given to check_news where the matching is looked at: against the
\* titles "Tax up" and "Rain" their ratios are 100 and 14.3, 66.7 and 60,
\* 16.7 and 60, 100 and 100
MatchHeadlines ==
    CheckHeadlines \cup
    { <<"R", "A", "I", " ", "u", "p", "!">>,
      <<"R", "a", "i", "d", "e", "d">>,
      <<"R", "a", "i", "n", ":", " ", "t", "a", "x", " ", "u", "p">> }

----------------------------------------------------------------------------
(* Module initialisation *)

\* which openai package the import finds: the modern one, the legacy one, none
Packages ==
    {"modern", "legacy", "none"}

\* lines 13-35: client and OPENAI_MODE from the import and the credential
ClientOf(pkg, key) ==
    IF pkg = "modern" THEN (IF key THEN "OpenAI" ELSE "None")
    ELSE IF pkg = "legacy" THEN "legacy_openai"
    ELSE "None"

ModeOf(pkg, key) ==
    IF pkg = "modern" THEN (IF key THEN "client" ELSE "None")
    ELSE IF pkg = "legacy" THEN "legacy"
    ELSE "None"

Locals ==
    /\ caller = "None"
    /\ headline = None
    /\ urlIdx = 0
    /\ new = << >>
    /\ relinked = FALSE
    /\ evidence = << >>
    /\ verdict_text = None
    /\ apiLog = << >>
    /\ llmCalls = << >>
    /\ ret = None

Init ==
    /\ OPENAI_API_KEY \in BOOLEAN
    /\ \E pkg \in Packages :
          /\ client = ClientOf(pkg, OPENAI_API_KEY)
          /\ OPENAI_MODE = ModeOf(pkg, OPENAI_API_KEY)
    /\ NEWS_API_KEY \in BOOLEAN
    /\ GNEWS_API_KEY \in BOOLEAN
    /\ trusted_items = << >>
    /\ pc = "idle"
    /\ Locals
    /\ arg = Unset
    /\ out = Unset

config ==
    << OPENAI_API_KEY, OPENAI_MODE, client, NEWS_API_KEY, GNEWS_API_KEY >>

pure ==
    << arg, out >>

----------------------------------------------------------------------------
(* Feed cache *)

\* the headline of the item is cached under a link that is not the item's
HasOtherLink(items, item) ==
    \E i \in 1..Len(items) :
        items[i].headline = item.headline /\ items[i].link # item.link

\* the test with the link compared too
IsCachedSameLink(items, item) ==
    \E i \in 1..Len(items) :
        items[i].headline = item.headline /\ items[i].link = item.link

\* any(i["headline"] == item["headline"] for i in trusted_items)
IsCached(items, item) ==
    \E i \in 1..Len(items) : items[i].headline = item.headline

\* the item of an entry; the entry has title and link
ItemOf(url, entry) ==
    [source |-> url,
     headline |-> entry.title,
     link |-> entry.link,
     timestamp |-> IF "published" \in DOMAIN entry THEN entry.published ELSE UtcNow]

\* entry.title and entry.link raise AttributeError when the entry lacks them
IsComplete(entry) ==
    "title" \in DOMAIN entry /\ "link" \in DOMAIN entry

RECURSIVE AddEntries(_, _, _)
\* the loop over d.entries, from the state st = [items, new, relinked, raised]
AddEntries(url, entries, st) ==
    IF entries = << >> THEN st
    ELSE IF ~IsComplete(Head(entries)) THEN [st EXCEPT !.raised = TRUE]
    ELSE LET item == ItemOf(url, Head(entries))
         IN  IF IsCached(st.items, item)
             THEN AddEntries(url, Tail(entries),
                             [st EXCEPT !.relinked = @ \/ HasOtherLink(st.items, item)])
             ELSE AddEntries(url, Tail(entries),
                             [st EXCEPT !.items = Append(@, item),
                                        !.new = Append(@, item)])

\* not hasattr(d, "entries") or not d.entries
HasNoEntries(d) ==
    "entries" \notin DOMAIN d \/ d.entries = << >>

StartFetch(who) ==
    /\ pc = "idle"
    /\ pc' = "fetch"
    /\ caller' = who
    /\ urlIdx' = 1
    /\ new' = << >>
    /\ relinked' = FALSE
    /\ UNCHANGED << config, trusted_items, evidence, verdict_text, apiLog, llmCalls, ret, pure >>

\* a call of fetch_rss_once()
CallFetchRssOnce ==
    /\ StartFetch("fetch_rss_once")
    /\ UNCHANGED headline

\* a call of stream_trusted_news()
CallStreamTrustedNews ==
    /\ StartFetch("stream_trusted_news")
    /\ UNCHANGED headline

\* a call of check_news(headline)
CallCheckNews ==
    /\ StartFetch("check_news")
    /\ headline' \in CheckHeadlines

\* a call of check_news(headline), the headline one of MatchHeadlines
CallCheckNewsMatch ==
    /\ StartFetch("check_news")
    /\ headline' \in MatchHeadlines

\* one turn of the loop over TRUSTED_RSS_URLS
FetchFeed ==
    /\ pc = "fetch"
    /\ urlIdx <= NumFeeds
    /\ \E d \in ParseResults :
          IF HasNoEntries(d)
          THEN /\ urlIdx' = urlIdx + 1
               /\ UNCHANGED << trusted_items, new, relinked, pc >>
          ELSE LET st == AddEntries(TRUSTED_RSS_URLS[urlIdx], d.entries,
                                    [items |-> trusted_items, new |-> new,
                                     relinked |-> relinked, raised |-> FALSE])
               IN  /\ trusted_items' = st.items
                   /\ new' = st.new
                   /\ relinked' = st.relinked
                   /\ IF st.raised
                      THEN pc' = "raised" /\ UNCHANGED urlIdx
                      ELSE urlIdx' = urlIdx + 1 /\ UNCHANGED pc
    /\ UNCHANGED << config, caller, headline, evidence, verdict_text, apiLog, llmCalls, ret, pure >>

\* trusted_items[-n:]
LastItems(items, n) ==
    SubSeq(items, Max(1, Len(items) - n + 1), Len(items))

LatestCount ==
    15

\* fetch_rss_once returns to its caller
FetchRssOnceReturn ==
    /\ pc = "fetch"
    /\ urlIdx > NumFeeds
    /\ caller = "fetch_rss_once"
    /\ ret' = new
    /\ pc' = "done"
    /\ UNCHANGED << config, trusted_items, caller, headline, urlIdx, new, relinked,
                    evidence, verdict_text, apiLog, llmCalls, pure >>

\* stream_trusted_news returns the latest items
StreamTrustedNewsReturn ==
    /\ pc = "fetch"
    /\ urlIdx > NumFeeds
    /\ caller = "stream_trusted_news"
    /\ ret' = LastItems(trusted_items, LatestCount)
    /\ pc' = "done"
    /\ UNCHANGED << config, trusted_items, caller, headline, urlIdx, new, relinked,
                    evidence, verdict_text, apiLog, llmCalls, pure >>

----------------------------------------------------------------------------
(* Evidence *)

Placeholder ==
    <<"N", "o", " ", "d", "i", "r", "e", "c", "t", " ", "e", "v", "i", "d", "e", "n", "c", "e", " ", "f", "o", "u", "n", "d", ".">>

NotAvailableMsg ==
    <<"U+26A0", " ", "O", "p", "e", "n", "A", "I", " ", "c", "l", "i", "e", "n", "t", " ", "n", "o", "t", " ", "a", "v", "a", "i", "l", "a", "b", "l", "e", " ", "o", "r", " ", "O", "P", "E", "N", "A", "I", "_", "A", "P", "I", "_", "K", "E", "Y", " ", "n", "o", "t", " ", "s", "e", "t", ".">>

OpenAIErrorPrefix ==
    <<"U+26A0", " ", "O", "p", "e", "n", "A", "I", " ", "e", "r", "r", "o", "r", ":", " ">>

NewsAPIErrorPrefix ==
    <<"U+26A0", " ", "N", "e", "w", "s", "A", "P", "I", " ", "e", "r", "r", "o", "r", ":", " ">>

GNewsErrorPrefix ==
    <<"U+26A0", " ", "G", "N", "e", "w", "s", " ", "A", "P", "I", " ", "e", "r", "r", "o", "r", ":", " ">>

\* f"{title} ({url})"
Format(title, url) ==
    Str(title) \o << " ", "(" >> \o Str(url) \o << ")" >>

\* rss_matches, formatted
MatchEvidence(norm_headline, items) ==
    LET rss_matches == SelectSeq(items, LAMBDA item : IsRssMatch(norm_headline, item))
    IN  [i \in 1..Len(rss_matches) |-> Format(rss_matches[i].headline, rss_matches[i].link)]

\* check_news after its refresh: the matches of the cache
RssMatch ==
    /\ pc = "fetch"
    /\ urlIdx > NumFeeds
    /\ caller = "check_news"
    /\ evidence' = MatchEvidence(normalize(headline), trusted_items)
    /\ new' = << >>
    /\ relinked' = FALSE
    /\ pc' = "newsapi"
    /\ UNCHANGED << config, trusted_items, caller, headline, urlIdx, verdict_text,
                    apiLog, llmCalls, ret, pure >>

Article1 ==
    [type |-> "object", title |-> <<"T", "a", "x", " ", "r", "i", "s", "e">>, url |-> <<"n", "1">>]

\* an article without title
Article2 ==
    [type |-> "object", url |-> <<"n", "2">>]

TimedOut ==
    <<"t", "i", "m", "e", "d", " ", "o", "u", "t">>

ExpectingValue ==
    <<"E", "x", "p", "e", "c", "t", "i", "n", "g", " ", "v", "a", "l", "u", "e">>

StrHasNoGet ==
    <<"'", "s", "t", "r", "'", " ", "o", "b", "j", "e", "c", "t", " ", "h", "a", "s", " ", "n", "o", " ", "a", "t", "t", "r", "i", "b", "u", "t", "e", " ", "'", "g", "e", "t", "'">>

\* what requests.get(...) and res.json() give: an exception of the transport,
\* a body that is no JSON, or the value of the body: an object without
\* articles (the answer to a refused request) or an object with articles, the
\* last of which may be a string
SearchOutcomes ==
    { [kind |-> "transport", msg |-> TimedOut],
      [kind |-> "nonjson", msg |-> ExpectingValue],
      [kind |-> "object", status |-> "error"],
      [kind |-> "object", articles |-> << Article1 >>],
      [kind |-> "object", articles |-> << Article2, [type |-> "string"] >>] }

\* a.get(field)
Get(a, field) ==
    IF field \in DOMAIN a THEN a[field] ELSE None

RECURSIVE ArticleEvidence(_, _)
\* the loop over data.get("articles", []): the lines appended, then the
\* message of the exception that ended it, if any
ArticleEvidence(articles, lines) ==
    IF articles = << >> THEN [lines |-> lines, error |-> None]
    ELSE IF Head(articles).type = "string" THEN [lines |-> lines, error |-> StrHasNoGet]
    ELSE ArticleEvidence(Tail(articles),
                         Append(lines, Format(Get(Head(articles), "title"),
                                              Get(Head(articles), "url"))))

\* the try block of one search API: what it appends to the evidence
SearchEvidence(o, prefix) ==
    IF o.kind \in {"transport", "nonjson"} THEN << prefix \o o.msg >>
    ELSE LET r == ArticleEvidence(IF "articles" \in DOMAIN o THEN o.articles ELSE << >>, << >>)
         IN  IF r.error = None THEN r.lines ELSE Append(r.lines, prefix \o r.error)

\* the NewsAPI search
NewsAPISearch ==
    /\ pc = "newsapi"
    /\ IF NEWS_API_KEY
       THEN \E o \in SearchOutcomes :
               /\ evidence' = evidence \o SearchEvidence(o, NewsAPIErrorPrefix)
               /\ apiLog' = Append(apiLog, [api |-> "NewsAPI", outcome |-> o])
       ELSE UNCHANGED << evidence, apiLog >>
    /\ pc' = "gnews"
    /\ UNCHANGED << config, trusted_items, caller, headline, urlIdx, new, relinked,
                    verdict_text, llmCalls, ret, pure >>

\* the GNews search
GNewsSearch ==
    /\ pc = "gnews"
    /\ IF GNEWS_API_KEY
       THEN \E o \in SearchOutcomes :
               /\ evidence' = evidence \o SearchEvidence(o, GNewsErrorPrefix)
               /\ apiLog' = Append(apiLog, [api |-> "GNews", outcome |-> o])
       ELSE UNCHANGED << evidence, apiLog >>
    /\ pc' = "openai"
    /\ UNCHANGED << config, trusted_items, caller, headline, urlIdx, new, relinked,
                    verdict_text, llmCalls, ret, pure >>

----------------------------------------------------------------------------
(* Fact check *)

PrimaryModel ==
    "gpt-4o-mini"

AlternateModel ==
    "gpt-3.5-turbo"

NoneHasNoStrip ==
    <<"'", "N", "o", "n", "e", "T", "y", "p", "e", "'", " ", "o", "b", "j", "e", "c", "t", " ", "h", "a", "s", " ", "n", "o", " ", "a", "t", "t", "r", "i", "b", "u", "t", "e", " ", "'", "s", "t", "r", "i", "p", "'">>

IncorrectKey ==
    <<"I", "n", "c", "o", "r", "r", "e", "c", "t", " ", "A", "P", "I", " ", "k", "e", "y", " ", "p", "r", "o", "v", "i", "d", "e", "d">>

NoKey ==
    <<"N", "o", " ", "A", "P", "I", " ", "k", "e", "y", " ", "p", "r", "o", "v", "i", "d", "e", "d">>

\* replies of the model: one with fake-leaning and real-leaning tokens, one
\* with real-leaning tokens inside white space, one of white space alone
SampleReplies ==
    { <<"L", "i", "k", "e", "l", "y", " ", "F", "a", "k", "e", ".", " ", "T", "h", "e", " ", "c", "l", "a", "i", "m", " ", "i", "s", " ", "f", "a", "l", "s", "e", ";", " ", "n", "o", "t", "h", "i", "n", "g", " ", "v", "e", "r", "i", "f", "i", "e", "d", ".">>,
      <<" ", "V", "e", "r", "i", "f", "i", "e", "d", " ", "R", "e", "a", "l", ".", " ", "C", "o", "n", "f", "i", "r", "m", "e", "d", " ", "b", "y", " ", "R", "e", "u", "t", "e", "r", "s", ".", "LF">>,
      << " " >> }

\* what a completion request gives: a choice with its content, a choice
\* without content, an exception.  Without credential (the legacy package
\* takes api_key = None) every request is refused.
CompletionOutcomes(key) ==
    IF key
    THEN { [kind |-> "reply", content |-> c] : c \in SampleReplies \cup {None} }
         \cup { [kind |-> "raise", msg |-> IncorrectKey] }
    ELSE { [kind |-> "raise", msg |-> NoKey] }

\* the request, or the .strip() of its content, raises
Fails(o) ==
    o.kind = "raise" \/ o.content = None

\* str(e)
ErrorOf(o) ==
    IF o.kind = "raise" THEN o.msg ELSE NoneHasNoStrip

Request(mode, model, o) ==
    [api |-> IF mode = "client" THEN "chat.completions.create" ELSE "ChatCompletion.create",
     model |-> model, outcome |-> o]

CompletionSameModel(mode, o1, o2) ==
    IF ~Fails(o1)
    THEN [calls |-> << Request(mode, PrimaryModel, o1) >>,
          text |-> Strip(o1.content)]
    ELSE [calls |-> << Request(mode, PrimaryModel, o1),
                       Request(mode, PrimaryModel, o2) >>,
          text |-> IF Fails(o2) THEN OpenAIErrorPrefix \o ErrorOf(o2)
                   ELSE Strip(o2.content)]

\* lines 176-217: the request with the primary model and, when it fails, the
\* one with the alternate model; in legacy mode from the inner handler, in
\* client mode from the outer one
Completion(mode, o1, o2) ==
    IF ~Fails(o1)
    THEN [calls |-> << Request(mode, PrimaryModel, o1) >>,
          text |-> Strip(o1.content)]
    ELSE [calls |-> << Request(mode, PrimaryModel, o1),
                       Request(mode, AlternateModel, o2) >>,
          text |-> IF Fails(o2) THEN OpenAIErrorPrefix \o ErrorOf(o2)
                   ELSE Strip(o2.content)]

ResultEvidenceAsIs(ev) ==
    ev

\* evidence or ["No direct evidence found."]
ResultEvidence(ev) ==
    IF ev = << >> THEN << Placeholder >> ELSE ev

Result(text, ev) ==
    [verdict |-> VerdictLabel(text),
     evidence |-> ResultEvidence(ev),
     explanation |-> text]

\* check_news from "Step 2" to its return.  The prompt (the headline and the
\* joined evidence, or the "no evidence" line) goes out with each request and
\* is read nowhere else; what the request gives is drawn from its outcomes.
FactCheck ==
    /\ pc = "openai"
    /\ IF client = "None"
       THEN /\ verdict_text' = NotAvailableMsg
            /\ UNCHANGED llmCalls
       ELSE \E o1 \in CompletionOutcomes(OPENAI_API_KEY) :
            \E o2 \in IF Fails(o1) THEN CompletionOutcomes(OPENAI_API_KEY) ELSE {o1} :
               LET r == Completion(OPENAI_MODE, o1, o2)
               IN  /\ verdict_text' = r.text
                   /\ llmCalls' = r.calls
    /\ ret' = Result(verdict_text', evidence)
    /\ pc' = "done"
    /\ UNCHANGED << config, trusted_items, caller, headline, urlIdx, new, relinked,
                    evidence, apiLog, pure >>

\* the caller has the result, or the exception; the next call may start
Reset ==
    /\ pc \in {"done", "raised"}
    /\ pc' = "idle"
    /\ caller' = "None"
    /\ headline' = None
    /\ urlIdx' = 0
    /\ new' = << >>
    /\ relinked' = FALSE
    /\ evidence' = << >>
    /\ verdict_text' = None
    /\ apiLog' = << >>
    /\ llmCalls' = << >>
    /\ ret' = None
    /\ UNCHANGED << config, trusted_items, pure >>

Next ==
    \/ CallFetchRssOnce
    \/ CallStreamTrustedNews
    \/ CallCheckNews
    \/ FetchFeed
    \/ FetchRssOnceReturn
    \/ StreamTrustedNewsReturn
    \/ RssMatch
    \/ NewsAPISearch
    \/ GNewsSearch
    \/ FactCheck
    \/ Reset

Spec ==
    Init /\ [][Next]_vars

\* the module as imported without any credential
InitFeedCache ==
    /\ Init
    /\ ~OPENAI_API_KEY /\ ~NEWS_API_KEY /\ ~GNEWS_API_KEY
    /\ OPENAI_MODE = "None"

\* the three functions of the module, called in any order, no credential set
SpecFeedCache ==
    InitFeedCache /\ [][Next]_vars

\* the steps of check_news, the one function the application calls
NextCheckNews ==
    \/ CallCheckNews
    \/ FetchFeed
    \/ RssMatch
    \/ NewsAPISearch
    \/ GNewsSearch
    \/ FactCheck
    \/ Reset

SpecCheckNews ==
    Init /\ [][NextCheckNews]_vars

\* the module as imported with no credential of the model; the credentials
\* of the two searches set or not
InitRssMatch ==
    /\ Init
    /\ ~OPENAI_API_KEY
    /\ OPENAI_MODE = "None"

NextRssMatch ==
    \/ CallCheckNewsMatch
    \/ FetchFeed
    \/ RssMatch
    \/ NewsAPISearch
    \/ GNewsSearch
    \/ FactCheck
    \/ Reset

\* check_news called with headlines that match all, some or none of the
\* cached items
SpecRssMatch ==
    InitRssMatch /\ [][NextRssMatch]_vars

----------------------------------------------------------------------------
(* The pure functions, each applied to an input drawn from a bounded set *)

\* longest text given to normalize
MaxLen ==
    3

\* most words of a text given to the label derivation
MaxWords ==
    2

NormalizeChars ==
    {"A", "b", "7", " ", "!", "U+00C9", "TAB"}

NormalizeInputs ==
    {None} \cup SeqsUpTo(NormalizeChars, MaxLen)

LabelWords ==
    { <<"f", "a", "l", "s", "e">>,
      <<"V", "e", "r", "i", "f", "i", "e", "d">>,
      <<"U", "N", "V", "E", "R", "I", "F", "I", "E", "D">>,
      <<"n", "o", "t">>,
      <<"T", "r", "u", "e">>,
      <<"S", "u", "r", "r", "e", "a", "l">>,
      <<"n", "o">>,
      <<"e", "v", "i", "d", "e", "n", "c", "e">>,
      <<"m", "a", "y", "b", "e">>,
      <<"y", "e", "s", ".">> }

LabelInputs ==
    { Join(ws, << Space >>) : ws \in SeqsUpTo(LabelWords, MaxWords) }

InitPure(inputs, at) ==
    /\ OPENAI_API_KEY = FALSE /\ OPENAI_MODE = "None" /\ client = "None"
    /\ NEWS_API_KEY = FALSE /\ GNEWS_API_KEY = FALSE
    /\ trusted_items = << >>
    /\ pc = at
    /\ Locals
    /\ arg \in inputs
    /\ out = Unset

InitNormalize ==
    InitPure(NormalizeInputs, "normalize")

ApplyNormalize ==
    /\ pc = "normalize"
    /\ out' = normalize(arg)
    /\ pc' = "normalized"
    /\ UNCHANGED << config, trusted_items, caller, headline, urlIdx, new, relinked,
                    evidence, verdict_text, apiLog, llmCalls, ret, arg >>

SpecNormalize ==
    InitNormalize /\ [][ApplyNormalize]_vars

InitLabel ==
    InitPure(LabelInputs, "label")

ApplyVerdictLabel ==
    /\ pc = "label"
    /\ out' = VerdictLabel(arg)
    /\ pc' = "labelled"
    /\ UNCHANGED << config, trusted_items, caller, headline, urlIdx, new, relinked,
                    evidence, verdict_text, apiLog, llmCalls, ret, arg >>

SpecLabel ==
    InitLabel /\ [][ApplyVerdictLabel]_vars

----------------------------------------------------------------------------
(* Properties *)

Range(q) ==
    { q[i] : i \in 1..Len(q) }

CheckNewsReturned ==
    pc = "done" /\ caller = "check_news"

\* C1: no two items of the cache have the same headline string, whatever the
\* feeds delivered and whichever function refreshed the cache; an entry whose
\* headline is cached already adds nothing, so the cache holds as many items
\* as headlines.
C1_HeadlinesUnique ==
    /\ \A i, j \in 1..Len(trusted_items) :
          trusted_items[i].headline = trusted_items[j].headline => i = j
    /\ Len(trusted_items) = Cardinality({ trusted_items[i].headline : i \in 1..Len(trusted_items) })

\* C1 witness: a refresh after the one that cached a headline met the same
\* headline under another link and appended nothing.
C1_Witness ==
    /\ pc = "fetch"
    /\ urlIdx > NumFeeds
    /\ relinked
    /\ new = << >>
    /\ Len(trusted_items) = 1

\* C2: check_news returns to its caller and never raises, whatever the feeds,
\* the search APIs and the model give.
C2_CheckNewsNeverRaises ==
    caller = "check_news" => pc # "raised"

RefreshEnded ==
    \/ pc \notin {"idle", "fetch"}
    \/ pc = "fetch" /\ urlIdx > NumFeeds

\* C3: a refresh ends by returning, with every feed of the list fetched: a
\* feed that fails, or whose entry list is malformed, does not keep the feeds
\* listed after it from being fetched and does not end the refresh by an
\* exception.
C3_RefreshFetchesEveryFeed ==
    RefreshEnded => pc # "raised" /\ urlIdx > NumFeeds

NoItemMatches ==
    \A i \in 1..Len(trusted_items) : ~IsRssMatch(normalize(headline), trusted_items[i])

\* a search request added a line to the evidence: an article, or a diagnostic
Contributed(o) ==
    \/ o.kind \in {"transport", "nonjson"}
    \/ "articles" \in DOMAIN o /\ o.articles # << >>

NothingCollected ==
    /\ NoItemMatches
    /\ \A k \in 1..Len(apiLog) : ~Contributed(apiLog[k].outcome)

\* C4: the evidence of a result of check_news is never empty: it is the one
\* placeholder line when no item of the cache matched and no search added an
\* article or a diagnostic, and the collected list, without the placeholder,
\* otherwise.
C4_EvidenceNeverEmpty ==
    CheckNewsReturned =>
        /\ ret.evidence # << >>
        /\ NothingCollected => ret.evidence = << Placeholder >>
        /\ ~NothingCollected =>
              /\ ret.evidence = evidence
              /\ evidence # << >>
              /\ Placeholder \notin Range(ret.evidence)

\* C4 witness: a result with the placeholder although the cache is not empty
\* and a search was sent: no item matched, the search added nothing.
C4_Witness ==
    /\ CheckNewsReturned
    /\ ret.evidence = << Placeholder >>
    /\ trusted_items # << >>
    /\ apiLog # << >>

HasFakeToken(text) ==
    \E tok \in Range(fake_tokens) : Contains(Lower(text), tok)

HasRealToken(text) ==
    \E tok \in Range(real_tokens) : Contains(Lower(text), tok)

\* C5: the label of a text with a fake-leaning and a real-leaning token is
\* Potential Fake, and Verified Real is the label only of a text with a
\* real-leaning token and no fake-leaning one; the tokens are found as
\* substrings, whatever the case.
C5_FakeTokenPriority ==
    pc = "labelled" =>
        /\ HasFakeToken(arg) /\ HasRealToken(arg) => out = PotentialFake
        /\ out = VerifiedReal => HasRealToken(arg) /\ ~HasFakeToken(arg)
        /\ HasRealToken(arg) /\ ~HasFakeToken(arg) => out = VerifiedReal

\* C5 witness: a text with "false" and "verified" has been labelled.
C5_Witness ==
    /\ pc = "labelled"
    /\ Contains(Lower(arg), <<"f", "a", "l", "s", "e">>)
    /\ Contains(Lower(arg), <<"v", "e", "r", "i", "f", "i", "e", "d">>)
    /\ out = PotentialFake

\* C6: the verdict of a result of check_news is one of the three labels.
C6_VerdictIsALabel ==
    CheckNewsReturned => ret.verdict \in {PotentialFake, VerifiedReal, Unverified}

\* C6 witness: both completion requests failed, and the diagnostic that
\* became the explanation has been labelled.
C6_Witness ==
    /\ CheckNewsReturned
    /\ Len(llmCalls) = 2
    /\ Fails(llmCalls[2].outcome)
    /\ ret.verdict = PotentialFake

HasPrefix(line, prefix) ==
    Len(line) >= Len(prefix) /\ SubSeq(line, 1, Len(prefix)) = prefix

PrefixOf(api) ==
    IF api = "NewsAPI" THEN NewsAPIErrorPrefix ELSE GNewsErrorPrefix

\* the request failed: by the transport, by a body that is no JSON, or by a
\* body that has not the shape {articles: [objects]}
SearchFailed(o) ==
    \/ o.kind \in {"transport", "nonjson"}
    \/ "articles" \notin DOMAIN o
    \/ \E a \in Range(o.articles) : a.type # "object"

Diagnostics(api) ==
    { i \in 1..Len(evidence) : HasPrefix(evidence[i], PrefixOf(api)) }

\* C7: a search request that failed leaves exactly one diagnostic line of its
\* API in the evidence, and the failure of the first search keeps neither the
\* second search nor the fact check from running.
C7_FailedSearchLeavesOneDiagnostic ==
    /\ \A k \in 1..Len(apiLog) :
          SearchFailed(apiLog[k].outcome) => Cardinality(Diagnostics(apiLog[k].api)) = 1
    /\ pc \in {"openai", "done"} /\ caller = "check_news" /\ GNEWS_API_KEY =>
          \E k \in 1..Len(apiLog) : apiLog[k].api = "GNews"

\* C8: without the credential of the model, check_news sends no completion
\* request, the explanation is the fixed message and the verdict Unverified;
\* without any credential and with an empty cache the evidence is the
\* placeholder.
C8_NoCredentialNoRequest ==
    CheckNewsReturned /\ ~OPENAI_API_KEY =>
        /\ llmCalls = << >>
        /\ ret.explanation = NotAvailableMsg
        /\ ret.verdict = Unverified
        /\ ~NEWS_API_KEY /\ ~GNEWS_API_KEY /\ trusted_items = << >> =>
              ret.evidence = << Placeholder >>

\* C9: a call of check_news sends at most two completion requests: the first
\* with the primary model, the second with the alternate model and only after
\* the first failed; when both fail the explanation is the diagnostic of the
\* second failure.
C9_AtMostOneFallback ==
    CheckNewsReturned =>
        /\ Len(llmCalls) <= 2
        /\ client # "None" => Len(llmCalls) >= 1
        /\ Len(llmCalls) >= 1 =>
              /\ llmCalls[1].model = PrimaryModel
              /\ ~Fails(llmCalls[1].outcome) =>
                    /\ Len(llmCalls) = 1
                    /\ ret.explanation = Strip(llmCalls[1].outcome.content)
        /\ Len(llmCalls) = 2 =>
              /\ llmCalls[2].model = AlternateModel
              /\ Fails(llmCalls[1].outcome)
              /\ Fails(llmCalls[2].outcome) =>
                    ret.explanation = OpenAIErrorPrefix \o ErrorOf(llmCalls[2].outcome)

\* C9 witness: in client mode the primary and the alternate model both failed.
C9_Witness ==
    /\ CheckNewsReturned
    /\ OPENAI_MODE = "client"
    /\ Len(llmCalls) = 2
    /\ Fails(llmCalls[1].outcome)
    /\ Fails(llmCalls[2].outcome)

AllowedChars ==
    Range(LowerCase) \cup Range(Digits) \cup {" "}

\* C10: the result of normalize holds only lowercase letters, digits and
\* spaces, normalize leaves it as it is, and it is empty for None and for the
\* empty text.
C10_NormalizeIdempotent ==
    pc = "normalized" =>
        /\ \A i \in 1..Len(out) : out[i] \in AllowedChars
        /\ normalize(out) = out
        /\ arg \in {None, << >>} => out = << >>

\* C10 witness: a text with a capital, a digit and a punctuation mark has
\* been normalized.
C10_Witness ==
    /\ pc = "normalized"
    /\ arg # None
    /\ "A" \in Range(arg) /\ "!" \in Range(arg) /\ "7" \in Range(arg)
    /\ out = << "a", "7" >>

\* check_news is past the matching of the cache
Matched ==
    pc \in {"newsapi", "gnews", "openai", "done"} /\ caller = "check_news"

\* the ratio of the item against the normalized headline is strictly greater
\* than the threshold
AboveThreshold(item) ==
    LET r == token_set_ratio(normalize(headline), normalize(item.headline))
    IN  r[1] > MatchThreshold * r[2]

LineOf(item) ==
    Format(item.headline, item.link)

\* the lines of the items above the threshold, in the order of the cache
RECURSIVE FeedLines(_)
FeedLines(items) ==
    IF items = << >> THEN << >>
    ELSE (IF AboveThreshold(Head(items)) THEN << LineOf(Head(items)) >> ELSE << >>)
         \o FeedLines(Tail(items))

\* C11: once check_news has matched, the evidence begins with the lines of
\* exactly those items of the cache as the refresh of this call left it whose
\* token-set ratio against the normalized headline is strictly greater than
\* 60, each once and in the order of the cache; every line after them comes
\* from a search, the line of an item whose ratio is 60 or lower is nowhere in
\* the evidence, and the returned evidence begins with the same lines.
C11_FeedEvidenceIsMatchesOfRefreshedCache ==
    Matched =>
        LET feed == FeedLines(trusted_items)
            n == Len(feed)
        IN  /\ Len(evidence) >= n
            /\ SubSeq(evidence, 1, n) = feed
            /\ \A i \in (n + 1)..Len(evidence) :
                  \A item \in Range(trusted_items) : evidence[i] # LineOf(item)
            /\ \A item \in Range(trusted_items) :
                  ~AboveThreshold(item) => LineOf(item) \notin Range(evidence)
            /\ pc = "done" /\ n > 0 =>
                  /\ Len(ret.evidence) >= n
                  /\ SubSeq(ret.evidence, 1, n) = feed

\* C11 witness: check_news returned for a headline whose ratio against the
\* item cached first is exactly 60 and against the item cached second above
\* 60: the evidence is the line of the second item and after it the lines of
\* a search.
C11_Witness ==
    /\ CheckNewsReturned
    /\ Len(trusted_items) = 2
    /\ LET r == token_set_ratio(normalize(headline), normalize(trusted_items[1].headline))
       IN  r[1] = MatchThreshold * r[2]
    /\ AboveThreshold(trusted_items[2])
    /\ Len(ret.evidence) > 1
    /\ ret.evidence[1] = LineOf(trusted_items[2])
    /\ apiLog # << >>

====
